---- MODULE Spec2Model ----
(***************************************************************************)
(* Vehicle classification service.  The repository holds two servers:      *)
(*   src/app/main.py     arg-max decoding, /predict and /batch_predict     *)
(*   src/scripts/app.py  softmax decoding, /predict, /correct, /stats      *)
(* Each is modelled as a state machine over its module globals, the        *)
(* corrections directories and the request being answered.                 *)
(***************************************************************************)
EXTENDS Integers, Sequences, FiniteSets

VARIABLES
    model_file,    \* what lies at the model path: "ok", "missing", "malformed"
    proc,          \* the server process: "starting", "serving", "exited"
    session,       \* src/app/main.py global `session`: "None" or "Loaded"
    ort_session,   \* src/scripts/app.py global `ort_session`: "None" or "Loaded"
    corrections,   \* the directories corrections/front and corrections/rear
    req,           \* the request being answered
    resp,          \* the response in flight to the caller
    runCalls,      \* engine run() calls reached while answering req
    pre,           \* directory counts when req arrived
    lastStats,     \* the tally the caller last got from /stats, if still current
    accepted,      \* corrections answered with success since the process started
    initTotal,     \* number of stored corrections when the process started
    pending,       \* /correct requests answered concurrently, by request id
    seenTriggered  \* a caller has received retraining_triggered = true

vars == <<model_file, proc, session, ort_session, corrections, req, resp,
          runCalls, pre, lastStats, accepted, initTotal, pending, seenTriggered>>

----------------------------------------------------------------------------
(* Bounds of the model *)

MaxOutLen == 3      \* longest raw model output (number of scores)
MaxScore == 1       \* raw scores range over 0..MaxScore
MaxFill == 5        \* well-formed files before and after the varied part of a batch
MaxMid == 2         \* length of the varied part of a batch
MaxSubmit == 3      \* corrections accepted in one run of Spec
RetrainRun == 51    \* corrections accepted in one run of SpecRetrain
MaxRequests == 3    \* /correct requests in flight together in SpecConcurrent

(* Program constants *)

MaxBatchSize == 10        \* src/app/main.py:136
RetrainThreshold == 50    \* src/scripts/app.py:33

classes == <<"front_vehicle", "rear_vehicle">>   \* src/app/utils.py:21
class_names == <<"front", "rear">>               \* src/scripts/app.py:35

----------------------------------------------------------------------------
(* Inputs *)

Names == {"a.jpg", "b.jpg"}
ContentTypes == {"image", "text", "none"}    \* "none": no Content-Type header

RECURSIVE SeqsUpTo(_, _)
SeqsUpTo(S, n) ==
    IF n = 0 THEN {<<>>}
    ELSE LET shorter == SeqsUpTo(S, n - 1)
         IN  shorter \cup {Append(s, x) : s \in {t \in shorter : Len(t) = n - 1}, x \in S}

RawOutputs == SeqsUpTo(0..MaxScore, MaxOutLen) \ {<<>>}

\* The bytes of an upload, by what the decoder and the engine make of them.
Undecodable == [decodes |-> FALSE, runs |-> FALSE, out |-> <<>>]
RunFails == [decodes |-> TRUE, runs |-> FALSE, out |-> <<>>]
Image(out) == [decodes |-> TRUE, runs |-> TRUE, out |-> out]

Bodies == {Undecodable, RunFails} \cup {Image(o) : o \in RawOutputs}
Uploads == [filename : Names, content_type : ContentTypes, body : Bodies]

GoodFile == [filename |-> "a.jpg", content_type |-> "image", body |-> Image(<<1, 0>>)]
BatchItems ==
    [filename : Names, content_type : {"image"},
     body : {Undecodable, RunFails, Image(<<0, 1>>), Image(<<0, 0, 1>>)}]
Filler(k) == [i \in 1..k |-> GoodFile]
Batches ==
    {Filler(k1) \o mid \o Filler(k2) :
        k1 \in 0..MaxFill, mid \in SeqsUpTo(BatchItems, MaxMid), k2 \in 0..MaxFill}

\* Ids of the /correct requests that may be in flight together.
Requests == 1..MaxRequests
NotSent == [pc |-> "idle"]

NoReq == [op |-> "none"]
NoResp == [op |-> "none"]
NoTally == [known |-> FALSE, front |-> 0, rear |-> 0, total |-> 0]

----------------------------------------------------------------------------
(* src/app/utils.py *)

Max(s) == CHOOSE m \in {s[i] : i \in DOMAIN s} : \A i \in DOMAIN s : s[i] <= m

\* np.argmax: the first index holding the maximum, counted from 0
argmax(s) == (CHOOSE i \in DOMAIN s : s[i] = Max(s) /\ \A j \in 1..(i - 1) : s[j] < Max(s)) - 1

postprocess_output(output) ==
    [pred_index |-> argmax(output), confidence |-> Max(output)]

get_class_name(index) ==
    IF 0 <= index /\ index < Len(classes) THEN classes[index + 1] ELSE "unknown"

----------------------------------------------------------------------------
(* src/app/main.py *)

\* raise HTTPException(status_code, detail), rendered by the framework as {"detail": ...}
HTTPException(op, status, detail) ==
    [op |-> op, status |-> status, success |-> FALSE, detail |-> detail,
     message |-> "", error |-> ""]

\* An exception no handler catches: the framework answers 500.
Unhandled(op) == HTTPException(op, 500, "Internal Server Error")

load_model_main ==
    /\ proc = "starting"
    /\ IF model_file = "ok"
       THEN session' = "Loaded" /\ proc' = "serving"
       ELSE \* logged and re-raised: the startup event fails and the server exits
            session' = session /\ proc' = "exited"
    /\ UNCHANGED <<model_file, ort_session, corrections, req, resp, runCalls, pre,
                   lastStats, accepted, initTotal,
                   pending, seenTriggered>>

\* The server is up and no response is in flight.
Idle == proc = "serving" /\ resp = NoResp

Answer(r, response, runs) ==
    /\ Idle
    /\ req' = r
    /\ resp' = response
    /\ runCalls' = runs

health_check_main ==
    /\ Answer([op |-> "health"],
              IF session = "None"
              THEN HTTPException("health", 503, "Model not loaded")
              ELSE [op |-> "health", status |-> 200, model_loaded |-> TRUE],
              0)
    /\ UNCHANGED <<model_file, proc, session, ort_session, corrections, pre,
                   lastStats, accepted, initTotal,
                   pending, seenTriggered>>

Prediction(output) ==
    LET p == postprocess_output(output)
    IN  [label |-> get_class_name(p.pred_index),
         class_index |-> p.pred_index,
         confidence |-> p.confidence]

predict_main(file) ==
    /\ Answer([op |-> "predict", file |-> file],
              IF session = "None"
              THEN HTTPException("predict", 503, "Model not loaded")
              ELSE IF file.content_type = "none"
              THEN Unhandled("predict")
              ELSE IF file.content_type # "image"
              THEN HTTPException("predict", 400, "Invalid file type")
              ELSE IF ~file.body.decodes \/ ~file.body.runs
              THEN HTTPException("predict", 500, "Prediction failed")
              ELSE [op |-> "predict", status |-> 200, success |-> TRUE,
                    prediction |-> Prediction(file.body.out),
                    filename |-> file.filename],
              IF session # "None" /\ file.content_type = "image" /\ file.body.decodes
              THEN 1 ELSE 0)
    /\ UNCHANGED <<model_file, proc, session, ort_session, corrections, pre,
                   lastStats, accepted, initTotal,
                   pending, seenTriggered>>

NoPrediction == [label |-> "", class_index |-> -1, confidence |-> -1]

\* One pass of the loop body of batch_predict.
BatchItem(file) ==
    IF ~file.body.decodes
    THEN [filename |-> file.filename, success |-> FALSE, error |-> "decode",
          prediction |-> NoPrediction]
    ELSE IF ~file.body.runs
    THEN [filename |-> file.filename, success |-> FALSE, error |-> "run",
          prediction |-> NoPrediction]
    ELSE [filename |-> file.filename, success |-> TRUE, error |-> "",
          prediction |-> Prediction(file.body.out)]

\* A loop that lets the exception of a failing item escape.
RECURSIVE BatchLoopAborting(_, _)
BatchLoopAborting(files, acc) ==
    IF files = <<>> THEN acc
    ELSE LET item == BatchItem(Head(files))
         IN  IF ~item.success THEN acc
             ELSE BatchLoopAborting(Tail(files),
                      [results |-> Append(acc.results, item), runs |-> acc.runs + 1])

\* A loop that collects the outcomes newest first.
RECURSIVE BatchLoopPrepending(_, _)
BatchLoopPrepending(files, acc) ==
    IF files = <<>> THEN acc
    ELSE BatchLoopPrepending(Tail(files),
             [results |-> <<BatchItem(Head(files))>> \o acc.results,
              runs |-> acc.runs + (IF Head(files).body.decodes THEN 1 ELSE 0)])

\* for file in files: try ... results.append(...) except ... results.append(...)
RECURSIVE BatchLoop(_, _)
BatchLoop(files, acc) ==
    IF files = <<>> THEN acc
    ELSE BatchLoop(Tail(files),
             [results |-> Append(acc.results, BatchItem(Head(files))),
              runs |-> acc.runs + (IF Head(files).body.decodes THEN 1 ELSE 0)])

\* A size check that lets a batch of MaxBatchSize + 1 through.
BatchAllowedLoose(files) == Len(files) <= MaxBatchSize + 1

BatchAllowed(files) == Len(files) <= MaxBatchSize

batch_predict(files) ==
    LET done == BatchLoop(files, [results |-> <<>>, runs |-> 0])
    IN
    /\ Answer([op |-> "batch_predict", files |-> files],
              IF session = "None"
              THEN HTTPException("batch_predict", 503, "Model not loaded")
              ELSE IF ~BatchAllowed(files)
              THEN HTTPException("batch_predict", 400, "Maximum 10 images allowed per batch")
              ELSE [op |-> "batch_predict", status |-> 200, success |-> TRUE,
                    total_images |-> Len(files), results |-> done.results],
              IF session # "None" /\ BatchAllowed(files) THEN done.runs ELSE 0)
    /\ UNCHANGED <<model_file, proc, session, ort_session, corrections, pre,
                   lastStats, accepted, initTotal,
                   pending, seenTriggered>>

\* The caller receives the response.
Deliver ==
    /\ resp # NoResp
    /\ lastStats' = IF resp.op = "stats"
                    THEN [known |-> TRUE, front |-> resp.front, rear |-> resp.rear,
                          total |-> resp.correction_count]
                    ELSE lastStats
    /\ req' = NoReq
    /\ resp' = NoResp
    /\ runCalls' = 0
    /\ pre' = NoTally
    /\ seenTriggered' = (seenTriggered
                          \/ (resp.op = "correct" /\ resp.success
                              /\ resp.retraining_triggered))
    /\ UNCHANGED <<model_file, proc, session, ort_session, corrections, accepted,
                   initTotal, pending>>

InitCommon ==
    /\ model_file \in {"ok", "missing", "malformed"}
    /\ proc = "starting"
    /\ session = "None"
    /\ ort_session = "None"
    /\ req = NoReq
    /\ resp = NoResp
    /\ runCalls = 0
    /\ pre = NoTally
    /\ lastStats = NoTally
    /\ accepted = 0
    /\ pending = [i \in Requests |-> NotSent]
    /\ seenTriggered = FALSE

InitMain ==
    /\ InitCommon
    /\ corrections = [c \in {"front", "rear"} |-> [old |-> 0, cur |-> {}]]
    /\ initTotal = 0

NextMain ==
    \/ load_model_main
    \/ health_check_main
    \/ Idle /\ \E file \in Uploads : predict_main(file)
    \/ Idle /\ \E files \in Batches : batch_predict(files)
    \/ Deliver

SpecMain == InitMain /\ [][NextMain]_vars

----------------------------------------------------------------------------
(* src/scripts/app.py *)

\* JSONResponse(status_code=500, {"success": False, "error": str(e), "message": ...})
Failure(op, message, error) ==
    [op |-> op, status |-> 500, success |-> FALSE, detail |-> "",
     message |-> message, error |-> error]

\* load_model returns False on a missing or unreadable artifact; startup goes on.
startup_event ==
    /\ proc = "starting"
    /\ ort_session' = IF model_file = "ok" THEN "Loaded" ELSE ort_session
    /\ proc' = "serving"
    /\ UNCHANGED <<model_file, session, corrections, req, resp, runCalls, pre,
                   lastStats, accepted, initTotal,
                   pending, seenTriggered>>

health_check ==
    /\ Answer([op |-> "health"],
              [op |-> "health", status |-> 200,
               health |-> IF ort_session # "None" THEN "healthy" ELSE "degraded",
               model_loaded |-> ort_session # "None"],
              0)
    /\ UNCHANGED <<model_file, proc, session, ort_session, corrections, pre,
                   lastStats, accepted, initTotal,
                   pending, seenTriggered>>

RECURSIVE Sum(_)
Sum(s) == IF s = <<>> THEN 0 ELSE Head(s) + Sum(Tail(s))

\* np.exp(logits - np.max(logits)), in base 2 with MaxScore fractional bits
exp_logits(logits) ==
    [i \in DOMAIN logits |-> 2 ^ (MaxScore - (Max(logits) - logits[i]))]

\* exp_logits / exp_logits.sum(), in hundredths of a percent
probs(logits) ==
    LET e == exp_logits(logits)
    IN  [i \in DOMAIN logits |-> (e[i] * 10000) \div Sum(e)]

\* The body of predict_image after the model check: the result, or the
\* HTTPException its except clause raises.
predict_image(body) ==
    LET p == probs(body.out)
        pred_idx == argmax(p)
    IN  IF ~body.runs
        THEN HTTPException("predict", 500, "Prediction error")
        ELSE IF pred_idx >= Len(class_names) \/ Len(p) < Len(class_names)
        THEN \* IndexError from class_names[pred_idx] or probs[i]
             HTTPException("predict", 500, "Prediction error")
        ELSE [op |-> "predict", status |-> 200, success |-> TRUE,
              predicted_class |-> class_names[pred_idx + 1],
              confidence |-> p[pred_idx + 1],
              probabilities |-> [i \in 1..Len(class_names) |-> p[i]]]

predict(file) ==
    /\ Answer([op |-> "predict", file |-> file],
              IF file.content_type = "none"
              THEN Failure("predict", "Prediction failed", "AttributeError")
              ELSE IF file.content_type # "image"
              THEN HTTPException("predict", 400, "Invalid file type")
              ELSE IF ~file.body.decodes
              THEN Failure("predict", "Prediction failed", "cannot identify image file")
              ELSE IF ort_session = "None"
              THEN HTTPException("predict", 500, "Model not loaded")
              ELSE predict_image(file.body),
              IF file.content_type = "image" /\ file.body.decodes /\ ort_session # "None"
              THEN 1 ELSE 0)
    /\ UNCHANGED <<model_file, proc, session, ort_session, corrections, pre,
                   lastStats, accepted, initTotal,
                   pending, seenTriggered>>

\* len(os.listdir("corrections/<c>")): the files of earlier seconds and those of
\* the current one
ListDirLen(dirs, c) == dirs[c].old + Cardinality(dirs[c].cur)

Tally(dirs) == [known |-> TRUE, front |-> ListDirLen(dirs, "front"),
                rear |-> ListDirLen(dirs, "rear"),
                total |-> ListDirLen(dirs, "front") + ListDirLen(dirs, "rear")]

IsClassName(c) == \E i \in DOMAIN class_names : class_names[i] = c

\* A save that, once the threshold is reached, moves the stored corrections
\* out of the directories (a retrain step that consumes them).
SaveConsuming(dirs, correct_class, filename) ==
    LET saved == [dirs EXCEPT ![correct_class].cur = @ \cup {filename}]
        total == saved["front"].old + Cardinality(saved["front"].cur)
                 + saved["rear"].old + Cardinality(saved["rear"].cur)
    IN  IF total >= RetrainThreshold
        THEN [c \in DOMAIN dirs |-> [old |-> 0, cur |-> {}]]
        ELSE saved

\* image.save(corrections/<correct_class>/<timestamp>_<filename>): the timestamp
\* has a resolution of one second, so within a second the file name is the key.
Save(dirs, correct_class, filename) ==
    [dirs EXCEPT ![correct_class].cur = @ \cup {filename}]

correct_prediction(file, correct_class) ==
    LET ok == IsClassName(correct_class) /\ file.body.decodes
        saved == IF ok THEN Save(corrections, correct_class, file.filename)
                 ELSE corrections
        front == ListDirLen(saved, "front")
        rear == ListDirLen(saved, "rear")
    IN
    /\ Answer([op |-> "correct", file |-> file, correct_class |-> correct_class],
              IF ~IsClassName(correct_class)
              THEN \* the HTTPException(400) is caught by `except Exception`
                   Failure("correct", "Correction failed", "Invalid class")
              ELSE IF ~file.body.decodes
              THEN Failure("correct", "Correction failed", "cannot identify image file")
              ELSE [op |-> "correct", status |-> 200, success |-> TRUE,
                    correction_count |-> front + rear,
                    threshold |-> RetrainThreshold,
                    retraining_triggered |-> (front + rear >= RetrainThreshold),
                    front |-> front, rear |-> rear],
              0)
    /\ corrections' = saved
    /\ pre' = Tally(corrections)
    /\ lastStats' = NoTally
    /\ accepted' = IF ok THEN accepted + 1 ELSE accepted
    /\ UNCHANGED <<model_file, proc, session, ort_session, initTotal,
                   pending, seenTriggered>>

\* A /stats handler that also drops a log file into corrections/front.
get_stats_logging ==
    /\ Answer([op |-> "stats"],
              [op |-> "stats", status |-> 200, success |-> TRUE,
               correction_count |-> ListDirLen(corrections, "front")
                                    + ListDirLen(corrections, "rear"),
               threshold |-> RetrainThreshold,
               progress_percentage |->
                   ((ListDirLen(corrections, "front") + ListDirLen(corrections, "rear"))
                    * 10000) \div RetrainThreshold,
               front |-> ListDirLen(corrections, "front"),
               rear |-> ListDirLen(corrections, "rear"),
               model_loaded |-> ort_session # "None"],
              0)
    /\ corrections' = [corrections EXCEPT !["front"].old = @ + 1]
    /\ pre' = Tally(corrections)
    /\ UNCHANGED <<model_file, proc, session, ort_session, lastStats, accepted,
                   initTotal,
                   pending, seenTriggered>>

get_stats ==
    LET front == ListDirLen(corrections, "front")
        rear == ListDirLen(corrections, "rear")
    IN
    /\ Answer([op |-> "stats"],
              [op |-> "stats", status |-> 200, success |-> TRUE,
               correction_count |-> front + rear,
               threshold |-> RetrainThreshold,
               \* round(total / threshold * 100, 2), in hundredths of a percent
               progress_percentage |-> ((front + rear) * 10000) \div RetrainThreshold,
               front |-> front, rear |-> rear,
               model_loaded |-> ort_session # "None"],
              0)
    /\ pre' = Tally(corrections)
    /\ UNCHANGED <<model_file, proc, session, ort_session, corrections, lastStats,
                   accepted, initTotal,
                   pending, seenTriggered>>

\* The wall clock passes to the next second: files saved so far can no longer
\* share a timestamp with later ones.
SecondElapses ==
    /\ Idle
    /\ \E c \in DOMAIN corrections : corrections[c].cur # {}
    /\ corrections' = [c \in DOMAIN corrections |->
                          [old |-> ListDirLen(corrections, c), cur |-> {}]]
    /\ UNCHANGED <<model_file, proc, session, ort_session, req, resp, runCalls, pre,
                   lastStats, accepted, initTotal,
                   pending, seenTriggered>>

EmptyDirs == [c \in {"front", "rear"} |-> [old |-> 0, cur |-> {}]]

\* The directories outlive the process: a run may start with corrections stored.
InitCounts == {0, RetrainThreshold - 2}

Init ==
    /\ InitCommon
    /\ corrections \in [{"front", "rear"} -> {[old |-> n, cur |-> {}] : n \in InitCounts}]
    /\ initTotal = ListDirLen(corrections, "front") + ListDirLen(corrections, "rear")

CorrectClasses == {"front", "rear", "truck"}
CorrectUploads == [filename : Names, content_type : {"image"},
                   body : {Undecodable, Image(<<1, 0>>)}]
PredictUploads == {u \in Uploads : u.filename = "a.jpg"}

Next ==
    \/ startup_event
    \/ health_check
    \/ Idle /\ \E file \in PredictUploads : predict(file)
    \/ Idle /\ accepted < MaxSubmit
          /\ \E file \in CorrectUploads, c \in CorrectClasses : correct_prediction(file, c)
    \/ get_stats
    \/ SecondElapses
    \/ Deliver

Spec == Init /\ [][Next]_vars

InitRetrain ==
    /\ InitCommon
    /\ model_file = "ok"
    /\ corrections = EmptyDirs
    /\ initTotal = 0

NextRetrain ==
    \/ startup_event
    \/ Idle /\ accepted < RetrainRun
          /\ \E file \in {u \in CorrectUploads : u.body.decodes}, c \in {"front", "rear"} :
                correct_prediction(file, c)
    \/ SecondElapses
    \/ Deliver

SpecRetrain == InitRetrain /\ [][NextRetrain]_vars

----------------------------------------------------------------------------
(* src/scripts/app.py: /correct requests served concurrently.  The handler is
   a coroutine; `await file.read()` is where other requests may run. *)

\* correct_prediction up to `await file.read()`: the class is validated.
correct_begin(i, file, correct_class) ==
    /\ proc = "serving"
    /\ pending[i].pc = "idle"
    /\ pending' = [pending EXCEPT ![i] =
          IF ~IsClassName(correct_class)
          THEN [pc |-> "done", file |-> file, correct_class |-> correct_class,
                resp |-> Failure("correct", "Correction failed", "Invalid class")]
          ELSE [pc |-> "reading", file |-> file, correct_class |-> correct_class,
                resp |-> NoResp]]
    /\ UNCHANGED <<model_file, proc, session, ort_session, corrections, req, resp,
                   runCalls, pre, lastStats, accepted, initTotal, seenTriggered>>

\* correct_prediction after `await file.read()`: decode, save under the current
\* timestamp, list the directories, answer.
correct_finish(i) ==
    LET r == pending[i]
        ok == r.file.body.decodes
        saved == IF ok THEN Save(corrections, r.correct_class, r.file.filename)
                 ELSE corrections
        front == ListDirLen(saved, "front")
        rear == ListDirLen(saved, "rear")
    IN
    /\ proc = "serving"
    /\ r.pc = "reading"
    /\ corrections' = saved
    /\ accepted' = IF ok THEN accepted + 1 ELSE accepted
    /\ pending' = [pending EXCEPT ![i] =
          [pc |-> "done", file |-> r.file, correct_class |-> r.correct_class,
           resp |-> IF ~ok
                    THEN Failure("correct", "Correction failed",
                                 "cannot identify image file")
                    ELSE [op |-> "correct", status |-> 200, success |-> TRUE,
                          correction_count |-> front + rear,
                          threshold |-> RetrainThreshold,
                          retraining_triggered |-> (front + rear >= RetrainThreshold),
                          front |-> front, rear |-> rear]]]
    /\ UNCHANGED <<model_file, proc, session, ort_session, req, resp, runCalls, pre,
                   lastStats, initTotal, seenTriggered>>

NextConcurrent ==
    \/ startup_event
    \/ \E i \in Requests, file \in CorrectUploads, c \in CorrectClasses :
          correct_begin(i, file, c)
    \/ \E i \in Requests : correct_finish(i)
    \/ SecondElapses

SpecConcurrent == Init /\ [][NextConcurrent]_vars

----------------------------------------------------------------------------
(* Properties *)

Failing(file) == ~file.body.decodes \/ ~file.body.runs

BatchAnswered ==
    resp.op = "batch_predict" /\ session = "Loaded"

\* C1: in a batch of at most MaxBatchSize files, a file that fails to decode or
\* to run gets the outcome {filename, success: false, error}, every file after
\* it still gets its own outcome, and the call answers 200.
BatchIsolatesFailures ==
    (BatchAnswered /\ Len(req.files) <= MaxBatchSize) =>
        /\ resp.status = 200
        /\ resp.success
        /\ \A i \in DOMAIN req.files :
              Failing(req.files[i]) =>
                  /\ i \in DOMAIN resp.results
                  /\ resp.results[i].filename = req.files[i].filename
                  /\ ~resp.results[i].success
                  /\ resp.results[i].error # ""
                  /\ \A j \in (i + 1)..Len(req.files) :
                        /\ j \in DOMAIN resp.results
                        /\ resp.results[j].success = ~Failing(req.files[j])

\* A full batch holding a file that fails to decode and one the engine fails
\* on, each followed by files that are classified.
BatchIsolatesFailuresWitness ==
    /\ BatchAnswered
    /\ Len(req.files) = MaxBatchSize
    /\ resp.status = 200
    /\ \E i, j \in 1..(MaxBatchSize - 1) :
          /\ i < j
          /\ ~req.files[i].body.decodes
          /\ req.files[j].body.decodes /\ ~req.files[j].body.runs
          /\ ~resp.results[i].success
          /\ ~resp.results[j].success
    /\ resp.results[MaxBatchSize].success

\* C2: with the model loaded, a batch of more than MaxBatchSize files is
\* answered 400 "Maximum 10 images allowed per batch", with no engine run and
\* no per-item outcome.
BatchTooLargeRejected ==
    (BatchAnswered /\ Len(req.files) > MaxBatchSize) =>
        /\ resp.status = 400
        /\ resp.detail = "Maximum 10 images allowed per batch"
        /\ runCalls = 0
        /\ "results" \notin DOMAIN resp

\* A rejected batch of MaxBatchSize + 1 files, all of them well-formed.
BatchTooLargeRejectedWitness ==
    /\ BatchAnswered
    /\ Len(req.files) = MaxBatchSize + 1
    /\ \A i \in DOMAIN req.files : ~Failing(req.files[i])
    /\ resp.status = 400
    /\ runCalls = 0

\* C3: a correction whose class is not a configured class name leaves the
\* stored corrections as they were and is answered with the invalid-class
\* rejection (400 "Invalid class"), not with the generic failure.
InvalidClassRejected ==
    (resp.op = "correct" /\ ~IsClassName(req.correct_class)) =>
        /\ Tally(corrections) = pre
        /\ resp.status = 400
        /\ resp.detail = "Invalid class"

\* C4: every accepted correction reports retraining_triggered = (total >=
\* threshold) for the total counted after its file is stored; starting from an
\* empty store, the 49th accepted correction reports false and the 50th true.
RetrainSignalAtThreshold ==
    (resp.op = "correct" /\ resp.success) =>
        /\ resp.correction_count = Tally(corrections).total
        /\ resp.retraining_triggered = (Tally(corrections).total >= RetrainThreshold)
        /\ (initTotal = 0 /\ accepted = RetrainThreshold - 1) => ~resp.retraining_triggered
        /\ (initTotal = 0 /\ accepted = RetrainThreshold) => resp.retraining_triggered

\* C5: when the model artifact is missing or malformed, the server gets past
\* startup and keeps serving with no model loaded, and its health check
\* answers model_loaded = false.
LoadFailureDegrades ==
    (model_file # "ok" /\ proc # "starting") =>
        /\ proc = "serving"
        /\ session = "None"
        /\ ort_session = "None"
        /\ resp.op = "health" => (resp.status = 200 /\ ~resp.model_loaded)

\* C6: while no model is loaded, every predict and batch_predict call, whatever
\* its input, is answered "Model not loaded" and runs nothing on the engine.
UnloadedFailsFast ==
    (resp.op \in {"predict", "batch_predict"}
        /\ session = "None" /\ ort_session = "None") =>
        /\ resp.detail = "Model not loaded"
        /\ runCalls = 0

\* C7: for a batch of at most MaxBatchSize files the outcomes are as many as
\* the files and in the same order: the i-th outcome names the i-th file.
BatchKeepsOrder ==
    (BatchAnswered /\ Len(req.files) <= MaxBatchSize) =>
        /\ resp.status = 200
        /\ resp.total_images = Len(req.files)
        /\ Len(resp.results) = Len(req.files)
        /\ \A i \in DOMAIN req.files :
              resp.results[i].filename = req.files[i].filename

\* A full batch with two file names, holding a failed and a classified item.
BatchKeepsOrderWitness ==
    /\ BatchAnswered
    /\ Len(req.files) = MaxBatchSize
    /\ resp.status = 200
    /\ \E i, j \in DOMAIN resp.results :
          /\ i < j
          /\ resp.results[i].filename # resp.results[j].filename
          /\ resp.results[i].success
          /\ ~resp.results[j].success

LabelOf(r) ==
    IF "prediction" \in DOMAIN r THEN r.prediction.label ELSE r.predicted_class

KnownLabel(l) ==
    \/ \E i \in DOMAIN classes : classes[i] = l
    \/ \E i \in DOMAIN class_names : class_names[i] = l

\* C8: for an image the engine runs on, whatever the length of the raw output,
\* predict answers with a label of the class list or with the label "unknown".
LabelResolved ==
    (/\ resp.op = "predict"
     /\ session = "Loaded" \/ ort_session = "Loaded"
     /\ req.file.content_type = "image"
     /\ req.file.body.decodes
     /\ req.file.body.runs) =>
        /\ resp.status = 200
        /\ KnownLabel(LabelOf(resp)) \/ LabelOf(resp) = "unknown"

\* C9: every accepted correction raises the count of its class, and the total
\* it reports, by exactly one and leaves the other class's count as it was.
AppendOnly ==
    (resp.op = "correct" /\ resp.success) =>
        /\ resp.correction_count = pre.total + 1
        /\ Tally(corrections).front =
              pre.front + (IF req.correct_class = "front" THEN 1 ELSE 0)
        /\ Tally(corrections).rear =
              pre.rear + (IF req.correct_class = "rear" THEN 1 ELSE 0)

\* C10: a /stats call made after another, with no correction submitted in
\* between, reports the same per-class counts and total, and leaves the stored
\* corrections as they were.
StatsIdempotent ==
    (resp.op = "stats" /\ lastStats.known) =>
        /\ resp.front = lastStats.front
        /\ resp.rear = lastStats.rear
        /\ resp.correction_count = lastStats.total
        /\ Tally(corrections) = pre

\* A second /stats call, made after a correction was stored and a second passed.
StatsIdempotentWitness ==
    /\ resp.op = "stats"
    /\ lastStats.known
    /\ accepted > 0
    /\ resp.correction_count > initTotal
    /\ \A c \in DOMAIN corrections : corrections[c].cur = {}

AllCompleted == \A i \in Requests : pending[i].pc # "reading"

\* C11: whatever the interleaving of concurrent corrections, once all of them
\* have completed the store holds one record per accepted submission: a tally
\* taken then counts the total at start plus the number accepted.
ConcurrentSubmissionsKept ==
    AllCompleted => Tally(corrections).total = initTotal + accepted

\* C12: the total of stored corrections never decreases, and once a caller has
\* received retraining_triggered = true, every later accepted correction
\* reports retraining_triggered = true as well.
TriggerNeverResets ==
    [][/\ Tally(corrections').total >= Tally(corrections).total
       /\ (seenTriggered /\ resp' # resp /\ resp'.op = "correct" /\ resp'.success)
              => resp'.retraining_triggered]_vars

\* A run that started below the threshold, in which a caller received
\* retraining_triggered = true and a later correction is answered.
TriggerNeverResetsWitness ==
    /\ initTotal < RetrainThreshold
    /\ seenTriggered
    /\ resp.op = "correct"
    /\ resp.success
    /\ resp.retraining_triggered
    /\ resp.correction_count > RetrainThreshold

====
